---- MODULE Spec2Model ----
(***************************************************************************)
(* A model of singlecellfusion/integration.py: integrate_data and its two  *)
(* engines, low_mem_integrate (streaming, low_mem_add_data per dataset)    *)
(* and high_mem_integrate (one dense outer join and a single write).       *)
(*                                                                         *)
(* Python indices are kept zero-based (row_idx, col_idx, feat_idx keys and *)
(* values, coordinates of sparse entries); TLA+ sequences are one-based,   *)
(* so position p of an array a is a[p + 1].                                *)
(***************************************************************************)
EXTENDS Integers, Sequences, FiniteSets, TLC

\* ------------------------------------------------------------------------
\* Bounds of the model
\* ------------------------------------------------------------------------
MaxTargets == 2
MaxBatch == 2

\* ------------------------------------------------------------------------
\* Values
\* ------------------------------------------------------------------------
None == "None"
\* the missing-value marker pandas fills in an outer join (counts are >= 0)
NaN == -1
\* default of the batch_size parameter
DefaultBatchSize == 5000

\* a feature identifier "base.version"; version 0 stands for "no suffix"
Id(b, v) == <<b, v>>

\* ------------------------------------------------------------------------
\* The loom files the merge can be run on.  Each has row attributes
\* (feature ids under two names, validity flags), column attributes
\* (cell ids, validity flags) and one layer, a rows x columns matrix.
\* ------------------------------------------------------------------------
SourceFile == "source.loom"
TargetFiles == {"t1.loom", "t2.loom"}

Loom(f) ==
  CASE f = "source.loom" ->
         [ra |-> [Accession |-> <<Id("A", 1), Id("B", 1), Id("C", 1)>>,
                  Gene      |-> <<Id("B", 1), Id("A", 1), Id("C", 1)>>,
                  Valid     |-> <<1, 0, 1>>],
          ca |-> [CellID |-> <<"s0", "s1", "s2">>,
                  Valid  |-> <<1, 0, 1>>,
                  Empty  |-> <<0, 0, 0>>],
          layers |-> ("" :> << <<1, 0, 2>>,
                               <<0, 0, 3>>,
                               <<4, 0, 0>> >>)]
    [] f = "t1.loom" ->
         [ra |-> [Accession |-> <<Id("C", 1), Id("A", 1), Id("B", 1)>>,
                  Gene      |-> <<Id("C", 2), Id("A", 2), Id("B", 2)>>,
                  Valid     |-> <<1, 1, 1>>,
                  Subset    |-> <<1, 1, 0>>],
          ca |-> [CellID |-> <<"t0", "s0">>,
                  Valid  |-> <<0, 1>>,
                  Empty  |-> <<0, 0>>],
          layers |-> ("" :> << <<5, 0>>,
                               <<0, 7>>,
                               <<0, 6>> >>)]
    [] f = "t2.loom" ->
         [ra |-> [Accession |-> <<Id("X", 1), Id("B", 1), Id("A", 1), Id("C", 1)>>,
                  Gene      |-> <<Id("B", 1), Id("X", 1), Id("C", 1), Id("A", 1)>>,
                  Valid     |-> <<0, 1, 1, 1>>,
                  Subset    |-> <<0, 1, 1, 0>>],
          ca |-> [CellID |-> <<"u0", "u1">>,
                  Valid  |-> <<1, 0>>,
                  Empty  |-> <<0, 0>>],
          layers |-> ("" :> << <<9, 0>>,
                               <<3, 0>>,
                               <<0, 0>>,
                               <<8, 0>> >>)]

\* shape of a file's matrix
NumRows(f) == Len(Loom(f).ra.Accession)
NumCols(f) == Len(Loom(f).ca.CellID)

\* ------------------------------------------------------------------------
\* Helpers of utils
\* ------------------------------------------------------------------------
\* positions (zero-based, ascending) at which a flag array is truthy
RECURSIVE WhereFrom(_, _)
WhereFrom(flags, p) ==
  IF p >= Len(flags) THEN <<>>
  ELSE (IF flags[p + 1] # 0 THEN <<p>> ELSE <<>>) \o WhereFrom(flags, p + 1)

\* np.arange(n)
Arange(n) == [i \in 1..n |-> i - 1]

\* utils.get_attr_index(loom_file, attr, columns, as_bool=False, inverse=False)
get_attr_index(f, attr, columns) ==
  IF attr = None
  THEN Arange(IF columns THEN NumCols(f) ELSE NumRows(f))
  ELSE WhereFrom(IF columns THEN Loom(f).ca[attr] ELSE Loom(f).ra[attr], 0)

\* utils.remove_gene_version: drops the version suffix of every identifier
remove_gene_version(ids) == [i \in DOMAIN ids |-> Id(ids[i][1], 0)]

\* a[idx]: numpy fancy indexing of an array by an array of positions
Take(a, idx) == [i \in DOMAIN idx |-> a[idx[i] + 1]]

Range(s) == {s[i] : i \in DOMAIN s}

\* ------------------------------------------------------------------------
\* Call parameters.  A parameter that may be a str or a list is a record
\* [list, val]: a scalar x is [list |-> FALSE, val |-> <<x>>].
\* ------------------------------------------------------------------------
Scalar(x) == [list |-> FALSE, val |-> <<x>>]
List(s) == [list |-> TRUE, val |-> s]

\* sequences over S of length lo..hi
SeqsOf(S, lo, hi) == UNION {[1..n -> S] : n \in lo..hi}

\* the three shapes a per-target parameter is given in, against targets of
\* length n: a scalar, a list of n values, a list of another length
Shapes(x, n) == {Scalar(x), List([i \in 1..n |-> x]), List([i \in 1..(n - 1) |-> x])}

\* calls that differ in the datasets, selections, labels and engine
ContentArgs ==
  {[loom_source |-> SourceFile, loom_target |-> lt.t,
    loom_output |-> "out.loom",
    layer_source |-> "", layer_target |-> lt.l,
    feat_source |-> fs, feat_target |-> Scalar(ft),
    cell_source |-> "CellID", cell_target |-> Scalar("CellID"),
    label_source |-> ls, label_target |-> Scalar(lb),
    valid_ra_source |-> vrs, valid_ra_target |-> Scalar(vrt),
    valid_ca_source |-> vcs, valid_ca_target |-> Scalar(vct),
    remove_version |-> rv, low_mem |-> eng.low_mem, batch_size |-> eng.batch_size] :
     lt \in {[t |-> List(s), l |-> List([i \in DOMAIN s |-> ""])] :
                s \in SeqsOf(TargetFiles, 1, MaxTargets)}
            \cup {[t |-> Scalar(f), l |-> Scalar("")] : f \in TargetFiles},
     fs \in {"Accession", "Gene"}, ft \in {"Accession", "Gene"},
     ls \in {None, "rna"}, lb \in {None, "atac"},
     vrs \in {None, "Valid"}, vrt \in {None, "Valid", "Subset"},
     vcs \in {None, "Valid", "Empty"}, vct \in {None, "Valid"},
     rv \in BOOLEAN,
     eng \in {[low_mem |-> TRUE, batch_size |-> b] : b \in 1..MaxBatch}
             \cup {[low_mem |-> FALSE, batch_size |-> DefaultBatchSize]}}

\* calls that differ in the shapes of the per-target parameters
ShapeArgs ==
  {[loom_source |-> SourceFile, loom_target |-> List(<<"t1.loom", "t1.loom">>),
    loom_output |-> "out.loom",
    layer_source |-> "", layer_target |-> la,
    feat_source |-> "Accession", feat_target |-> ft,
    cell_source |-> "CellID", cell_target |-> ct,
    label_source |-> "rna", label_target |-> lb,
    valid_ra_source |-> None, valid_ra_target |-> vrt,
    valid_ca_source |-> None, valid_ca_target |-> vct,
    remove_version |-> FALSE, low_mem |-> lm, batch_size |-> MaxBatch] :
     la \in Shapes("", 2), ft \in Shapes("Accession", 2),
     ct \in Shapes("CellID", 2), lb \in Shapes("atac", 2),
     vrt \in Shapes(None, 2), vct \in Shapes(None, 2), lm \in BOOLEAN}

Args == ContentArgs \cup ShapeArgs

\* ------------------------------------------------------------------------
\* Check inputs (the same code opens low_mem_integrate and
\* high_mem_integrate)
\* ------------------------------------------------------------------------
\* utils.all_same_type_size(parameters, expected_type, confirm_size)
all_same_type_size(parameters, expected_type, confirm_size) ==
  /\ \A i \in DOMAIN parameters : parameters[i].list = (expected_type = "list")
  /\ confirm_size =>
       \A i, j \in DOMAIN parameters :
          Len(parameters[i].val) = Len(parameters[j].val)

\* utils.mimic_list(parameters, list_len) accepts its parameters
mimic_list_ok(parameters, list_len) ==
  \A i \in DOMAIN parameters :
     parameters[i].list => Len(parameters[i].val) = list_len

\* utils.mimic_list on one parameter: a list is kept, a scalar is repeated
mimic_list(p, list_len) ==
  IF p.list THEN p.val ELSE [i \in 1..list_len |-> p.val[1]]

\* the checks with every per-target parameter required to be a list
CheckInputsOkLists(a) ==
  IF a.loom_target.list
  THEN all_same_type_size(<<a.loom_target, a.layer_target, a.feat_target,
                            a.cell_target, a.valid_ra_target,
                            a.valid_ca_target, a.label_target>>, "list", TRUE)
  ELSE all_same_type_size(<<a.loom_target, a.layer_target,
                            a.cell_target, a.feat_target>>, "str", FALSE)

\* the checks pass
CheckInputsOk(a) ==
  IF a.loom_target.list
  THEN /\ all_same_type_size(<<a.loom_target, a.layer_target>>, "list", TRUE)
       /\ mimic_list_ok(<<a.feat_target, a.cell_target, a.valid_ra_target,
                          a.valid_ca_target, a.label_target>>,
                        Len(a.loom_target.val))
  ELSE all_same_type_size(<<a.loom_target, a.layer_target,
                            a.cell_target, a.feat_target>>, "str", FALSE)

\* number of target datasets of a call
NumTargets(a) == Len(a.loom_target.val)

\* the targets taken from the end of the list
DatasetArgsReversed(a, i) ==
  IF i = 0
  THEN [loom |-> a.loom_source, layer |-> a.layer_source,
        feat_attr |-> a.feat_source, cell_attr |-> a.cell_source,
        label |-> a.label_source, valid_ra |-> a.valid_ra_source,
        valid_ca |-> a.valid_ca_source]
  ELSE LET n == Len(a.loom_target.val)
           j == n - i + 1
       IN [loom |-> a.loom_target.val[j], layer |-> a.layer_target.val[j],
           feat_attr |-> mimic_list(a.feat_target, n)[j],
           cell_attr |-> mimic_list(a.cell_target, n)[j],
           label |-> mimic_list(a.label_target, n)[j],
           valid_ra |-> mimic_list(a.valid_ra_target, n)[j],
           valid_ca |-> mimic_list(a.valid_ca_target, n)[j]]

\* the arguments of the i-th dataset's low_mem_add_data / high_mem_get_data
\* call: 0 is the source, i >= 1 the i-th target (loom_target[i - 1] when
\* loom_target is a list, loom_target itself otherwise)
DatasetArgs(a, i) ==
  IF i = 0
  THEN [loom |-> a.loom_source, layer |-> a.layer_source,
        feat_attr |-> a.feat_source, cell_attr |-> a.cell_source,
        label |-> a.label_source, valid_ra |-> a.valid_ra_source,
        valid_ca |-> a.valid_ca_source]
  ELSE LET n == NumTargets(a) IN
       [loom |-> a.loom_target.val[i], layer |-> a.layer_target.val[i],
        feat_attr |-> mimic_list(a.feat_target, n)[i],
        cell_attr |-> mimic_list(a.cell_target, n)[i],
        label |-> mimic_list(a.label_target, n)[i],
        valid_ra |-> mimic_list(a.valid_ra_target, n)[i],
        valid_ca |-> mimic_list(a.valid_ca_target, n)[i]]

\* ------------------------------------------------------------------------
\* Sparse blocks.  A block in coordinate form is a record [shape, nz]:
\* shape = <<rows, columns>> and nz the sequence of its non-zero entries
\* [row, col, val] in row-major order.
\* ------------------------------------------------------------------------
\* layer.sparse(row_idx, cols): the sub-matrix of m at rows row_idx and
\* columns cols, as a coordinate list of its non-zero entries
Sparse(m, row_idx, cols) ==
  LET nr == Len(row_idx)
      nc == Len(cols)
      cell(i) == [row |-> (i - 1) \div nc, col |-> (i - 1) % nc,
                  val |-> m[row_idx[((i - 1) \div nc) + 1] + 1][cols[((i - 1) % nc) + 1] + 1]]
      all == [i \in 1..(nr * nc) |-> cell(i)]
  IN [shape |-> <<nr, nc>>, nz |-> SelectSeq(all, LAMBDA e : e.val # 0)]

RECURSIVE SumVals(_, _, _)
SumVals(nz, r, c) ==
  IF nz = <<>> THEN 0
  ELSE (IF Head(nz).row = r /\ Head(nz).col = c THEN Head(nz).val ELSE 0)
       + SumVals(Tail(nz), r, c)

\* the dense columns of a block (entries at one coordinate add up):
\* a sequence of columns, each a sequence of values over the rows
ToArray(b) ==
  [c \in 1..b.shape[2] |-> [r \in 1..b.shape[1] |-> SumVals(b.nz, r - 1, c - 1)]]

\* ------------------------------------------------------------------------
\* Feature alignment of low_mem_add_data
\* ------------------------------------------------------------------------
\* positions of feat_ids, ascending, that hold the label id
RECURSIVE Matches(_, _, _)
Matches(feat_ids, id, p) ==
  IF p >= Len(feat_ids) THEN <<>>
  ELSE (IF feat_ids[p + 1] = id THEN <<p>> ELSE <<>>) \o Matches(feat_ids, id, p + 1)

\* DataFrame.loc[out_ids] raises a KeyError: a label is not in the index
LocKeyError(feat_ids, out_ids) ==
  \E i \in DOMAIN out_ids : out_ids[i] \notin Range(feat_ids)

\* the old_idx column of feat_idx.loc[out_ids]: for every label of out_ids,
\* in order, the positions of feat_ids that hold it
RECURSIVE LocOldIdx(_, _)
LocOldIdx(feat_ids, out_ids) ==
  IF out_ids = <<>> THEN <<>>
  ELSE Matches(feat_ids, Head(out_ids), 0) \o LocOldIdx(feat_ids, Tail(out_ids))

\* feat_idx as a dict {old_idx: new_idx}; new_idx is np.arange over the
\* selected rows and a later row overwrites an earlier one with the same key
FeatIdx(feat_ids, out_ids) ==
  LET old == LocOldIdx(feat_ids, out_ids)
      last(o) == CHOOSE n \in DOMAIN old :
                    old[n] = o /\ \A n2 \in DOMAIN old : old[n2] = o => n2 <= n
  IN [o \in Range(old) |-> last(o) - 1]

\* Series.replace(to_replace=dict) with each key applied one after the
\* other to the result of the previous one
RECURSIVE ReplaceChained(_, _, _)
ReplaceChained(values, d, keys) ==
  IF keys = {} THEN values
  ELSE LET key == CHOOSE x \in keys : \A y \in keys : x <= y
       IN ReplaceChained([i \in DOMAIN values |->
                            IF values[i] = key THEN d[key] ELSE values[i]],
                         d, keys \ {key})

ReplaceSeq(values, d) == ReplaceChained(values, d, DOMAIN d)

\* Series.replace(to_replace=dict): every value that is a key of the dict
\* is replaced by the dict's value for it, the others are kept; the keys are
\* matched against the original values
Replace(values, d) ==
  [i \in DOMAIN values |-> IF values[i] \in DOMAIN d THEN d[values[i]] ELSE values[i]]

\* the re-ordering of a block when appending: the row of every entry goes
\* through feat_idx, columns and values are kept, the shape is the block's
Remap(dat, feat_idx) ==
  LET orig_idx == [i \in DOMAIN dat.nz |-> dat.nz[i].row]
      new_idx == Replace(orig_idx, feat_idx)
  IN [shape |-> <<dat.shape[1], dat.shape[2]>>,
      nz |-> [i \in DOMAIN dat.nz |->
                [row |-> new_idx[i], col |-> dat.nz[i].col, val |-> dat.nz[i].val]]]

\* ------------------------------------------------------------------------
\* ds.scan(axis=1, items=col_idx, batch_size): the file's columns are walked
\* in windows of batch_size columns; a window yields the items that fall in
\* it and a window without items is skipped
\* ------------------------------------------------------------------------
ColsPerChunk(f, ix, batch_size) ==
  IF NumCols(f) - ix < batch_size THEN NumCols(f) - ix ELSE batch_size

\* a window that leaves out the item at its start
SelectionOpen(f, col_idx, ix, batch_size) ==
  SelectSeq(col_idx, LAMBDA c : c > ix /\ c < ix + ColsPerChunk(f, ix, batch_size))

Selection(f, col_idx, ix, batch_size) ==
  SelectSeq(col_idx, LAMBDA c : c >= ix /\ c < ix + ColsPerChunk(f, ix, batch_size))

\* the start of the first window at or after ix that yields a block, or -1
RECURSIVE NextWindow(_, _, _, _)
NextWindow(f, col_idx, ix, batch_size) ==
  IF ix >= NumCols(f) THEN -1
  ELSE IF Selection(f, col_idx, ix, batch_size) # <<>> THEN ix
  ELSE NextWindow(f, col_idx, ix + ColsPerChunk(f, ix, batch_size), batch_size)

\* ------------------------------------------------------------------------
\* The output store and its writer
\* ------------------------------------------------------------------------
\* the store before its creation
NoStore == [exists |-> FALSE, ra |-> <<>>, cols |-> <<>>, mat |-> <<>>]

\* the column attributes of a block: one record per column; Modality is
\* None for a block written without that attribute
ColAttrs(cell_ids, file, label) ==
  [i \in DOMAIN cell_ids |->
     [CellID |-> cell_ids[i], OriginalFile |-> file, Modality |-> label]]

\* utils.batch_add_sparse with append=True refuses the block: its row count
\* is not the store's
SchemaMismatch(store, dat) == dat.shape[1] # Len(store.ra)

\* utils.batch_add_sparse: with append=False the store is created with the
\* block's row attribute and columns; with append=True the block's columns
\* are added after the store's and its row attribute is not used
batch_add_sparse(store, dat, row_attrs, col_attrs, append) ==
  IF append
  THEN [store EXCEPT !.cols = @ \o col_attrs, !.mat = @ \o ToArray(dat)]
  ELSE [exists |-> TRUE, ra |-> row_attrs, cols |-> col_attrs, mat |-> ToArray(dat)]

\* ------------------------------------------------------------------------
\* Full-memory engine: tables and their concatenation
\* ------------------------------------------------------------------------
\* high_mem_get_data: the dense table of a dataset after the transpose:
\* index = cell ids, columns = feature ids, values[c][r] the count of
\* selected feature r in selected cell c
high_mem_get_data(a, i) ==
  LET d == DatasetArgs(a, i)
      row_idx == get_attr_index(d.loom, d.valid_ra, FALSE)
      col_idx == get_attr_index(d.loom, d.valid_ca, TRUE)
      m == Loom(d.loom).layers[d.layer]
      ids == Take(Loom(d.loom).ra[d.feat_attr], row_idx)
  IN [index |-> Take(Loom(d.loom).ca[d.cell_attr], col_idx),
      columns |-> IF a.remove_version THEN remove_gene_version(ids) ELSE ids,
      values |-> [c \in DOMAIN col_idx |->
                    [r \in DOMAIN row_idx |-> m[row_idx[r] + 1][col_idx[c] + 1]]]]

\* high_mem_repeat_label: label repeated once per selected column
high_mem_repeat_label(f, valid_ca, label) ==
  [i \in DOMAIN get_attr_index(f, valid_ca, TRUE) |-> label]

\* the labels of all tables in one array (np.hstack)
RECURSIVE Hstack(_)
Hstack(arrays) ==
  IF arrays = <<>> THEN <<>> ELSE Head(arrays) \o Hstack(Tail(arrays))

\* the union of the tables' columns in order of first appearance
RECURSIVE UnionColumns(_, _)
UnionColumns(tables, acc) ==
  IF tables = <<>> THEN acc
  ELSE UnionColumns(Tail(tables),
                    acc \o SelectSeq(Head(tables).columns,
                                     LAMBDA x : x \notin Range(acc)))

\* the position of a label in an index
PosOf(x, s) == CHOOSE i \in DOMAIN s : s[i] = x

\* a table re-indexed on the columns cols: a column the table lacks is
\* filled with the fill value
Reindex(t, cols, fill) ==
  [c \in DOMAIN t.values |->
     [j \in DOMAIN cols |->
        IF cols[j] \in Range(t.columns)
        THEN t.values[c][PosOf(cols[j], t.columns)]
        ELSE fill]]

\* pd.concat(tables, axis=0, sort=False): the rows of all tables, on the
\* union of their columns; a column absent from a table is NaN in its rows
Concat(tables) ==
  LET cols == UnionColumns(tables, <<>>)
  IN [index |-> Hstack([i \in DOMAIN tables |-> tables[i].index]),
      columns |-> cols,
      values |-> Hstack([i \in DOMAIN tables |-> Reindex(tables[i], cols, NaN)])]

\* label_source is not None and label_target is not None
IsType(a) ==
  /\ a.label_source # None
  /\ (a.label_target.list \/ a.label_target.val[1] # None)

\* ------------------------------------------------------------------------
\* State
\* ------------------------------------------------------------------------
VARIABLES
  args,    \* the arguments of the integrate_data call
  pc,      \* where the call is
  err,     \* the exception that ended the call, "none" if none
  k,       \* the dataset at hand: 0 the source, i the i-th target
  lm,      \* the locals of the running low_mem_add_data call
  hm,      \* the locals of high_mem_integrate
  out,     \* the output store (loom_output)
  writes,  \* the writes done to the output store, oldest first
  blocks   \* the blocks low_mem_add_data built, oldest first: each before
           \* and after the re-ordering

vars == <<args, pc, err, k, lm, hm, out, writes, blocks>>

NoLocals == [row_idx |-> <<>>, col_idx |-> <<>>, out_ids |-> <<>>,
             feat_ids |-> <<>>, feat_idx |-> <<>>, append |-> FALSE, ix |-> 0]

NoTables == [imputed_dat |-> <<>>, type_dat |-> <<>>, type_bound |-> FALSE,
             file_dat |-> <<>>]

Init ==
  /\ args \in Args
  /\ pc = "start"
  /\ err = "none"
  /\ k = 0
  /\ lm = NoLocals
  /\ hm = NoTables
  /\ out = NoStore
  /\ writes = <<>>
  /\ blocks = <<>>

Fail(e) ==
  /\ pc' = "error"
  /\ err' = e

\* ------------------------------------------------------------------------
\* integrate_data: dispatch and the engines' input checks
\* ------------------------------------------------------------------------
\* the checks pass: the streaming engine goes on to add the source, the
\* full-memory engine to load it
CheckInputs ==
  /\ pc = "start"
  /\ CheckInputsOk(args)
  /\ pc' = IF args.low_mem THEN "add_data" ELSE "hm_source"
  /\ UNCHANGED <<args, err, k, lm, hm, out, writes, blocks>>

\* the checks raise
CheckInputsError ==
  /\ pc = "start"
  /\ ~CheckInputsOk(args)
  /\ Fail("ParameterShapeError")
  /\ UNCHANGED <<args, k, lm, hm, out, writes, blocks>>

\* ------------------------------------------------------------------------
\* low_mem_add_data
\* ------------------------------------------------------------------------
\* gen_out set in every call
GenOutAlways(i) == TRUE

\* gen_out of the call for dataset i
GenOut(i) == i = 0

\* out_ids of the call for dataset i: the source's Accession at its valid
\* rows when generating the output, the output's Accession otherwise
OutIds(a, i, store) ==
  LET d == DatasetArgs(a, i)
      ids == IF GenOut(i)
             THEN Take(Loom(d.loom).ra.Accession,
                       get_attr_index(d.loom, d.valid_ra, FALSE))
             ELSE store.ra
  IN IF a.remove_version THEN remove_gene_version(ids) ELSE ids

\* feat_ids of the call for dataset i
FeatIds(a, i) ==
  LET d == DatasetArgs(a, i)
      ids == Take(Loom(d.loom).ra[d.feat_attr],
                  get_attr_index(d.loom, d.valid_ra, FALSE))
  IN IF a.remove_version THEN remove_gene_version(ids) ELSE ids

\* the call up to the scan: selections, out_ids, feat_ids and feat_idx
LowMemAddDataBegin ==
  /\ pc = "add_data"
  /\ GenOut(k) \/ out.exists
  /\ ~LocKeyError(FeatIds(args, k), OutIds(args, k, out))
  /\ LET d == DatasetArgs(args, k) IN
     lm' = [row_idx |-> get_attr_index(d.loom, d.valid_ra, FALSE),
            col_idx |-> get_attr_index(d.loom, d.valid_ca, TRUE),
            out_ids |-> OutIds(args, k, out),
            feat_ids |-> FeatIds(args, k),
            feat_idx |-> FeatIdx(FeatIds(args, k), OutIds(args, k, out)),
            append |-> ~GenOut(k),
            ix |-> 0]
  /\ pc' = "scan"
  /\ UNCHANGED <<args, err, k, hm, out, writes, blocks>>

\* the output file of an appending call does not exist: connecting fails
LowMemAddDataNoOutput ==
  /\ pc = "add_data"
  /\ ~GenOut(k)
  /\ ~out.exists
  /\ Fail("OutputNotFound")
  /\ UNCHANGED <<args, k, lm, hm, out, writes, blocks>>

\* the failing alignment with the output removed again
LowMemAddDataKeyErrorRollback ==
  /\ pc = "add_data"
  /\ GenOut(k) \/ out.exists
  /\ LocKeyError(FeatIds(args, k), OutIds(args, k, out))
  /\ Fail("KeyError")
  /\ out' = NoStore
  /\ UNCHANGED <<args, k, lm, hm, writes, blocks>>

\* feat_idx.loc[out_ids] raises: a label of out_ids is not among feat_ids
LowMemAddDataKeyError ==
  /\ pc = "add_data"
  /\ GenOut(k) \/ out.exists
  /\ LocKeyError(FeatIds(args, k), OutIds(args, k, out))
  /\ Fail("KeyError")
  /\ UNCHANGED <<args, k, lm, hm, out, writes, blocks>>

\* the block with out_ids as its row attribute also when not appending
NextBlockOutIds ==
  LET d == DatasetArgs(args, k)
      w == NextWindow(d.loom, lm.col_idx, lm.ix, args.batch_size)
      sel == Selection(d.loom, lm.col_idx, w, args.batch_size)
      raw == Sparse(Loom(d.loom).layers[d.layer], lm.row_idx, sel)
  IN [w |-> w,
      sel |-> sel,
      raw |-> raw,
      dat |-> IF lm.append THEN Remap(raw, lm.feat_idx) ELSE raw,
      add_ids |-> lm.out_ids,
      col_attrs |-> ColAttrs(Take(Loom(d.loom).ca[d.cell_attr], sel), d.loom, d.label)]

\* the block the scan yields next, as low_mem_add_data builds it
NextBlock ==
  LET d == DatasetArgs(args, k)
      w == NextWindow(d.loom, lm.col_idx, lm.ix, args.batch_size)
      sel == Selection(d.loom, lm.col_idx, w, args.batch_size)
      raw == Sparse(Loom(d.loom).layers[d.layer], lm.row_idx, sel)
  IN [w |-> w,
      sel |-> sel,
      raw |-> raw,
      dat |-> IF lm.append THEN Remap(raw, lm.feat_idx) ELSE raw,
      add_ids |-> IF lm.append THEN lm.out_ids ELSE lm.feat_ids,
      col_attrs |-> ColAttrs(Take(Loom(d.loom).ca[d.cell_attr], sel), d.loom, d.label)]

HasNextBlock ==
  NextWindow(DatasetArgs(args, k).loom, lm.col_idx, lm.ix, args.batch_size) # -1

BlockRecord(b) ==
  [k |-> k, cols |-> b.sel, remapped |-> lm.append, feat_idx |-> lm.feat_idx,
   raw |-> b.raw, dat |-> b.dat]

\* one iteration of the loop over the file: the block is extracted,
\* re-ordered if appending, and written
ScanBlock ==
  /\ pc = "scan"
  /\ HasNextBlock
  /\ LET b == NextBlock IN
     /\ lm.append => ~SchemaMismatch(out, b.dat)
     /\ out' = batch_add_sparse(out, b.dat, b.add_ids, b.col_attrs, lm.append)
     /\ writes' = Append(writes, [k |-> k, append |-> lm.append, cols |-> b.sel])
     /\ blocks' = Append(blocks, BlockRecord(b))
     /\ lm' = [lm EXCEPT !.append = TRUE,
                         !.ix = b.w + ColsPerChunk(DatasetArgs(args, k).loom, b.w,
                                                   args.batch_size)]
  /\ UNCHANGED <<args, pc, err, k, hm>>

\* one iteration of the loop in which the writer refuses the block
ScanBlockMismatch ==
  /\ pc = "scan"
  /\ HasNextBlock
  /\ LET b == NextBlock IN
     /\ lm.append
     /\ SchemaMismatch(out, b.dat)
     /\ blocks' = Append(blocks, BlockRecord(b))
  /\ Fail("SchemaMismatchError")
  /\ UNCHANGED <<args, k, lm, hm, out, writes>>

\* the scan is exhausted: the call returns and low_mem_integrate goes on to
\* the next target, or returns
ScanEnd ==
  /\ pc = "scan"
  /\ ~HasNextBlock
  /\ lm' = NoLocals
  /\ IF k < NumTargets(args)
     THEN /\ k' = k + 1
          /\ pc' = "add_data"
     ELSE /\ k' = k
          /\ pc' = "done"
  /\ UNCHANGED <<args, err, hm, out, writes, blocks>>

\* ------------------------------------------------------------------------
\* high_mem_integrate
\* ------------------------------------------------------------------------
\* the table and the labels of dataset i are appended to the lists;
\* type_dat is only appended to when is_type
WithDataset(h, a, i) ==
  LET d == DatasetArgs(a, i) IN
  [imputed_dat |-> Append(h.imputed_dat, high_mem_get_data(a, i)),
   type_dat |-> IF IsType(a)
                THEN Append(h.type_dat, high_mem_repeat_label(d.loom, d.valid_ca, d.label))
                ELSE h.type_dat,
   type_bound |-> IsType(a),
   file_dat |-> Append(h.file_dat, high_mem_repeat_label(d.loom, d.valid_ca, d.loom))]

\* get data from source: the lists are made; type_dat only if is_type
HighMemGetSource ==
  /\ pc = "hm_source"
  /\ hm' = WithDataset(NoTables, args, 0)
  /\ k' = 1
  /\ pc' = "hm_target"
  /\ UNCHANGED <<args, err, lm, out, writes, blocks>>

\* get data from the next target
HighMemGetTarget ==
  /\ pc = "hm_target"
  /\ hm' = WithDataset(hm, args, k)
  /\ IF k < NumTargets(args)
     THEN /\ k' = k + 1
          /\ pc' = "hm_target"
     ELSE /\ k' = k
          /\ pc' = "hm_combine"
  /\ UNCHANGED <<args, err, lm, out, writes, blocks>>

\* the output of loompy.create for the tables and labels h
HighMemOutput(h, a) ==
  LET imputed_dat == Concat(h.imputed_dat)
      type_dat == Hstack(h.type_dat)
      file_dat == Hstack(h.file_dat)
  IN [exists |-> TRUE,
      ra |-> imputed_dat.columns,
      cols |-> [i \in DOMAIN imputed_dat.index |->
                  [CellID |-> imputed_dat.index[i],
                   OriginalFile |-> file_dat[i],
                   Modality |-> IF IsType(a) THEN type_dat[i] ELSE None]],
      mat |-> imputed_dat.values]

\* combine data and make the output loom file
HighMemCreate ==
  /\ pc = "hm_combine"
  /\ hm.type_bound
  /\ out' = HighMemOutput(hm, args)
  /\ writes' = Append(writes, [k |-> -1, append |-> FALSE,
                               cols |-> Arange(Len(Hstack(hm.file_dat)))])
  /\ pc' = "done"
  /\ UNCHANGED <<args, err, k, lm, hm, blocks>>

\* combine data: np.hstack(type_dat) reads a name that was never bound
HighMemUnbound ==
  /\ pc = "hm_combine"
  /\ ~hm.type_bound
  /\ Fail("UnboundLocalError")
  /\ UNCHANGED <<args, k, lm, hm, out, writes, blocks>>

Next ==
  \/ CheckInputs
  \/ CheckInputsError
  \/ LowMemAddDataBegin
  \/ LowMemAddDataNoOutput
  \/ LowMemAddDataKeyError
  \/ ScanBlock
  \/ ScanBlockMismatch
  \/ ScanEnd
  \/ HighMemGetSource
  \/ HighMemGetTarget
  \/ HighMemCreate
  \/ HighMemUnbound

Spec == Init /\ [][Next]_vars

\* the whole full-memory computation on the arguments a
RECURSIVE HighMemTables(_, _)
HighMemTables(a, i) ==
  IF i = 0 THEN WithDataset(NoTables, a, 0)
  ELSE WithDataset(HighMemTables(a, i - 1), a, i)

TypeOK ==
  /\ pc \in {"start", "add_data", "scan", "hm_source", "hm_target",
             "hm_combine", "done", "error"}
  /\ (pc = "error") = (err # "none")
  /\ k \in -1..NumTargets(args)

\* ------------------------------------------------------------------------
\* What the properties are stated over
\* ------------------------------------------------------------------------
\* the value of a per-target parameter for the i-th target
ParamAt(p, i) == IF p.list THEN p.val[i] ELSE p.val[1]

\* one-based positions of an array, ascending, whose flag is set (all of
\* them when no validity attribute is named)
ValidPositions(n, attr, attrs) ==
  SelectSeq([i \in 1..n |-> i], LAMBDA i : attr = None \/ attrs[attr][i] # 0)

StripIf(rv, id) == IF rv THEN <<id[1], 0>> ELSE id

\* the source's feature identifiers: its feature-id attribute at the valid
\* rows, version-stripped when requested
SourceFeatureIds ==
  LET f == Loom(args.loom_source)
      sel == ValidPositions(Len(f.ra.Accession), args.valid_ra_source, f.ra)
  IN [n \in DOMAIN sel |-> StripIf(args.remove_version, f.ra[args.feat_source][sel[n]])]

\* the i-th target's feature identifiers, as a set
TargetFeatureIdSet(i) ==
  LET f == Loom(args.loom_target.val[i])
      sel == ValidPositions(Len(f.ra.Accession), ParamAt(args.valid_ra_target, i), f.ra)
  IN {StripIf(args.remove_version, f.ra[ParamAt(args.feat_target, i)][sel[n]]) :
        n \in DOMAIN sel}

\* the valid columns (zero-based, ascending) of dataset i
ValidCols(i) ==
  LET f == Loom(IF i = 0 THEN args.loom_source ELSE args.loom_target.val[i])
      attr == IF i = 0 THEN args.valid_ca_source ELSE ParamAt(args.valid_ca_target, i)
      sel == ValidPositions(Len(f.ca.CellID), attr, f.ca)
  IN [n \in DOMAIN sel |-> sel[n] - 1]

\* the columns dataset i contributes: its valid samples in ascending order
ColumnsOf(i) ==
  LET file == IF i = 0 THEN args.loom_source ELSE args.loom_target.val[i]
      cell == IF i = 0 THEN args.cell_source ELSE ParamAt(args.cell_target, i)
      label == IF i = 0 THEN args.label_source ELSE ParamAt(args.label_target, i)
      sel == ValidCols(i)
  IN [n \in DOMAIN sel |->
        [CellID |-> Loom(file).ca[cell][sel[n] + 1], OriginalFile |-> file,
         Modality |-> label]]

RECURSIVE ColumnsUpTo(_)
ColumnsUpTo(i) == IF i = 0 THEN ColumnsOf(0) ELSE ColumnsUpTo(i - 1) \o ColumnsOf(i)

\* the columns of the blocks written for dataset i, in write order
RECURSIVE WrittenCols(_, _)
WrittenCols(ws, i) ==
  IF ws = <<>> THEN <<>>
  ELSE (IF Head(ws).k = i THEN Head(ws).cols ELSE <<>>) \o WrittenCols(Tail(ws), i)

NumWritesOf(i) == Cardinality({n \in DOMAIN writes : writes[n].k = i})

Terminated == pc \in {"done", "error"}

\* ------------------------------------------------------------------------
\* C1
\* ------------------------------------------------------------------------
\* C1 as stated: in both engines, once the output store is written its row
\* identifiers, in order, are the source's feature identifiers.
C1_RowsAreSourceIds ==
  out.exists => out.ra = SourceFeatureIds

\* C1 as amended: in the streaming engine, after the first and after every
\* later write, the output's row identifiers, in order, equal the source's
\* feature identifiers (feature-id attribute, valid rows, version-stripped
\* when requested), whatever the targets' features are.  In the full-memory
\* engine the output's row identifiers begin with the source's, in order,
\* and go on with the identifiers that only targets have, each once.
C1_RowOrder ==
  out.exists =>
    LET S == SourceFeatureIds IN
    /\ Len(out.ra) >= Len(S)
    /\ SubSeq(out.ra, 1, Len(S)) = S
    /\ args.low_mem => out.ra = S
    /\ ~args.low_mem =>
         /\ \A i, j \in DOMAIN out.ra : out.ra[i] = out.ra[j] => i = j
         /\ Range(out.ra) =
              Range(S) \cup UNION {TargetFeatureIdSet(i) : i \in 1..NumTargets(args)}

\* a streaming merge has written blocks of the source and of a target whose
\* features come in another order than the source's
C1_Witness ==
  /\ args.low_mem
  /\ out.exists
  /\ NumWritesOf(0) >= 2
  /\ NumWritesOf(1) >= 1
  /\ FeatIds(args, 1) # out.ra

\* ------------------------------------------------------------------------
\* C2
\* ------------------------------------------------------------------------
\* C2: in streaming mode, aligning a target that has a valid feature
\* identifier absent from the canonical order fails: the call never gets
\* past the alignment to its scan with such an identifier.
C2_AbsentFeatureFailsAlignment ==
  (args.low_mem /\ k >= 1 /\ pc = "scan") =>
     Range(lm.feat_ids) \subseteq Range(lm.out_ids)

\* ------------------------------------------------------------------------
\* C3
\* ------------------------------------------------------------------------
SubsetInputs ==
  \A i \in 1..NumTargets(args) : TargetFeatureIdSet(i) \subseteq Range(SourceFeatureIds)

\* C3: when every target's feature set is a subset of the source's, the
\* merge completes in either engine, and what the streaming engine wrote is
\* what the full-memory engine writes for the same arguments: the same rows,
\* columns and values.
C3_EnginesAgree ==
  (CheckInputsOk(args) /\ SubsetInputs) =>
     /\ pc # "error"
     /\ (pc = "done" /\ args.low_mem) =>
          LET h == HighMemTables(args, NumTargets(args)) IN
          /\ h.type_bound
          /\ out = HighMemOutput(h, args)

\* ------------------------------------------------------------------------
\* C4
\* ------------------------------------------------------------------------
\* the feature identifiers of the dataset a file is read as
FeatureIdSetOfFile(file) ==
  IF file = args.loom_source
  THEN Range(SourceFeatureIds)
  ELSE UNION {TargetFeatureIdSet(i) :
                i \in {j \in 1..NumTargets(args) : args.loom_target.val[j] = file}}

\* C4: in the output of the full-memory engine, a feature that the dataset
\* of a sample lacks holds zero at that sample.
C4_AbsentFeatureIsZero ==
  (~args.low_mem /\ pc = "done") =>
     \A c \in DOMAIN out.cols : \A r \in DOMAIN out.ra :
        out.ra[r] \notin FeatureIdSetOfFile(out.cols[c].OriginalFile)
          => out.mat[c][r] = 0

C6_ColumnOrder ==
  args.low_mem =>
    /\ \A m, n \in DOMAIN writes : m < n => writes[m].k <= writes[n].k
    /\ pc = "done" => out.cols = ColumnsUpTo(NumTargets(args))

\* a completed streaming merge of two different targets, in which a sample
\* id of the source occurs again in a target
C6_Witness ==
  /\ args.low_mem
  /\ pc = "done"
  /\ NumTargets(args) = 2
  /\ args.loom_target.val[1] # args.loom_target.val[2]
  /\ \E m, n \in DOMAIN out.cols :
        /\ m < n
        /\ out.cols[m].CellID = out.cols[n].CellID
        /\ out.cols[m].OriginalFile # out.cols[n].OriginalFile

\* ------------------------------------------------------------------------
\* C7
\* ------------------------------------------------------------------------
\* C7: for every dataset that has been streamed, the columns of the blocks
\* written for it, concatenated in write order, are exactly its valid
\* columns in ascending order, each once; a block has at least one and at
\* most batch_size columns.
C7_BatchPartition ==
  args.low_mem =>
    /\ \A i \in 0..k : (i < k \/ pc = "done") => WrittenCols(writes, i) = ValidCols(i)
    /\ \A n \in DOMAIN writes :
          Len(writes[n].cols) >= 1 /\ Len(writes[n].cols) <= args.batch_size

\* a dataset with a column that is not selected has been streamed in
\* several blocks
C7_Witness ==
  /\ args.low_mem
  /\ pc = "done"
  /\ args.valid_ca_source = "Valid"
  /\ NumWritesOf(0) >= 2
  /\ Len(ValidCols(0)) < NumCols(args.loom_source)

\* ------------------------------------------------------------------------
\* C8
\* ------------------------------------------------------------------------
\* C8: the re-ordering of a block keeps the number of entries, every
\* entry's column and value, and the block's shape, and gives every entry
\* whose row r is in the alignment the row alignment[r], all rows being
\* substituted at once; a block without entries stays without entries.
C8_Remap ==
  \A n \in DOMAIN blocks :
     blocks[n].remapped =>
       LET b == blocks[n] IN
       /\ b.dat.shape = b.raw.shape
       /\ Len(b.dat.nz) = Len(b.raw.nz)
       /\ \A i \in DOMAIN b.raw.nz :
            /\ b.dat.nz[i].col = b.raw.nz[i].col
            /\ b.dat.nz[i].val = b.raw.nz[i].val
            /\ b.raw.nz[i].row \in DOMAIN b.feat_idx =>
                 b.dat.nz[i].row = b.feat_idx[b.raw.nz[i].row]

\* a block with an entry in a row that the alignment swaps with another
\* row has been re-ordered, and so has a block without entries
C8_Witness ==
  /\ \E n \in DOMAIN blocks :
        /\ blocks[n].remapped
        /\ \E i \in DOMAIN blocks[n].raw.nz :
              LET r == blocks[n].raw.nz[i].row
                  d == blocks[n].feat_idx
              IN r \in DOMAIN d /\ d[r] # r /\ d[r] \in DOMAIN d /\ d[d[r]] = r
  /\ \E n \in DOMAIN blocks :
        /\ blocks[n].remapped
        /\ blocks[n].raw.nz = <<>>
        /\ blocks[n].raw.shape[1] > 0

\* ------------------------------------------------------------------------
\* C9
\* ------------------------------------------------------------------------
ScalarOrListOf(p, n) == ~p.list \/ Len(p.val) = n

\* C9 as stated: with a list of targets the merge is accepted exactly when
\* each of layer, feature attribute, cell attribute, row validity, column
\* validity and label is a scalar or a list as long as the target list.
C9_ScalarLayerAccepted ==
  (args.loom_target.list /\ pc # "start") =>
     ((err # "ParameterShapeError") <=>
        \A p \in {args.layer_target, args.feat_target, args.cell_target,
                  args.valid_ra_target, args.valid_ca_target, args.label_target} :
           ScalarOrListOf(p, NumTargets(args)))

\* C9 as amended: with a list of targets the merge is accepted exactly when
\* the layer is a list as long as the target list and each of feature
\* attribute, cell attribute, row validity, column validity and label is a
\* scalar or a list as long as the target list; otherwise it fails with the
\* parameter-shape error, in either engine, before any dataset is read and
\* before anything is written.
C9_ParameterShapes ==
  (args.loom_target.list /\ pc # "start") =>
     /\ (err # "ParameterShapeError") <=>
          /\ args.layer_target.list
          /\ Len(args.layer_target.val) = NumTargets(args)
          /\ \A p \in {args.feat_target, args.cell_target, args.valid_ra_target,
                       args.valid_ca_target, args.label_target} :
                ScalarOrListOf(p, NumTargets(args))
     /\ err = "ParameterShapeError" =>
          /\ out = NoStore
          /\ writes = <<>>
          /\ blocks = <<>>
          /\ lm = NoLocals
          /\ hm = NoTables

\* a merge over a list of targets with a well-formed layer list has been
\* refused for a label list of another length
C9_Witness ==
  /\ err = "ParameterShapeError"
  /\ args.loom_target.list
  /\ args.layer_target.list
  /\ Len(args.layer_target.val) = NumTargets(args)
  /\ args.label_target.list
  /\ Len(args.label_target.val) # NumTargets(args)

\* ------------------------------------------------------------------------
\* C10
\* ------------------------------------------------------------------------
\* C10: a full-memory merge in which the source's or the targets' label (or
\* both) is not supplied runs to its single write, and no sample of its
\* output has a modality attribute.
C10_LabelOptional ==
  (~args.low_mem /\ Terminated /\ CheckInputsOk(args) /\ ~IsType(args)) =>
     /\ pc = "done"
     /\ Len(writes) = 1
     /\ \A c \in DOMAIN out.cols : out.cols[c].Modality = None

\* ------------------------------------------------------------------------
\* C11
\* ------------------------------------------------------------------------
\* the streaming merge of the source with features [A, B, C] and one target
\* whose validity-selected features are [C, A] over its two samples
C11_Scenario ==
  /\ args.low_mem
  /\ CheckInputsOk(args)
  /\ NumTargets(args) = 1
  /\ args.feat_source = "Accession"
  /\ args.valid_ra_source = None
  /\ args.valid_ca_source # "Empty"
  /\ args.loom_target.val[1] = "t1.loom"
  /\ ParamAt(args.feat_target, 1) = "Accession"
  /\ ParamAt(args.valid_ra_target, 1) = "Subset"
  /\ ParamAt(args.valid_ca_target, 1) = None

\* C11: the streaming merge of a source with features [A, B, C] and a
\* target with features [C, A] (C holding [5, 0], A holding [0, 7]) does not
\* fail; the target's alignment is {0 -> 2, 1 -> 0}; its blocks have 3 rows;
\* and in the completed output the target's samples hold [5, 0] in row 2,
\* [0, 7] in row 0 and zero in row 1, the feature the target lacks.
C11_MissingFeatureZeroRow ==
  C11_Scenario =>
    /\ pc # "error"
    /\ (k = 1 /\ pc = "scan") => lm.feat_idx = (0 :> 2 @@ 1 :> 0)
    /\ \A n \in DOMAIN blocks : blocks[n].k = 1 => blocks[n].dat.shape[1] = 3
    /\ pc = "done" =>
         LET n == Len(out.mat) IN
         /\ n >= 2
         /\ out.mat[n - 1] = <<0, 0, 5>>
         /\ out.mat[n] = <<7, 0, 0>>

\* ------------------------------------------------------------------------
\* C12
\* ------------------------------------------------------------------------
\* C12: in streaming mode the alignment of a dataset is complete before its
\* first block is written (during its scan the alignment is the one of the
\* whole dataset and covers every canonical identifier), and when aligning
\* dataset k fails nothing of dataset k has been written while the output
\* holds exactly the columns of the datasets streamed before it: nothing at
\* all for the source, the source's and the earlier targets' columns for a
\* target.
C12_AlignBeforeWrite ==
  args.low_mem =>
    /\ pc = "scan" =>
         /\ lm.feat_idx = FeatIdx(FeatIds(args, k), lm.out_ids)
         /\ ~LocKeyError(lm.feat_ids, lm.out_ids)
    /\ err = "KeyError" =>
         /\ NumWritesOf(k) = 0
         /\ \A n \in DOMAIN blocks : blocks[n].k # k
         /\ k = 0 => out = NoStore
         /\ k >= 1 =>
              /\ out.exists
              /\ out.cols = ColumnsUpTo(k - 1)
              /\ Len(out.mat) = Len(out.cols)
              /\ \A i \in 0..(k - 1) : WrittenCols(writes, i) = ValidCols(i)

\* the alignment of the second target has failed after blocks of the source
\* and of the first target were written
C12_Witness ==
  /\ args.low_mem
  /\ err = "KeyError"
  /\ k = 2
  /\ NumWritesOf(0) >= 1
  /\ NumWritesOf(1) >= 1
  /\ NumWritesOf(2) = 0

\* ------------------------------------------------------------------------
\* C13
\* ------------------------------------------------------------------------
\* the first block written for the source
FirstSourceBlock == blocks[CHOOSE n \in DOMAIN blocks : blocks[n].k = 0 /\ ~blocks[n].remapped]

\* C13: in streaming mode the alignment of the source against its own
\* canonical order never fails and is the identity on the positions of its
\* valid rows, whatever its feature-id attribute and validity selection are;
\* the row identifiers handed over with a later block are those of the first
\* block; and every block of the source after the first is written as it was
\* extracted, with the rows and the row count of the first block.
C13_SourceAlignmentIdentity ==
  (args.low_mem /\ k = 0) =>
    /\ err # "KeyError"
    /\ pc = "scan" =>
         /\ lm.feat_idx = [r \in 0..(Len(lm.row_idx) - 1) |-> r]
         /\ lm.out_ids = lm.feat_ids
    /\ \A n \in DOMAIN blocks :
          blocks[n].remapped =>
            /\ blocks[n].dat = blocks[n].raw
            /\ blocks[n].dat.shape[1] = FirstSourceBlock.dat.shape[1]

\* ------------------------------------------------------------------------
\* C14
\* ------------------------------------------------------------------------
\* the keys of the col_attrs a column was written with: Modality is among
\* them only for a call with a label
ColAttrKeys(col) ==
  IF col.Modality = None
  THEN {"CellID", "OriginalFile"}
  ELSE {"CellID", "OriginalFile", "Modality"}

\* a column-attribute array of the store: the values written under a key
StoreColAttr(store, key) ==
  LET has == SelectSeq(store.cols, LAMBDA c : key \in ColAttrKeys(c))
  IN [i \in DOMAIN has |-> has[i][key]]

\* C14: at every point of a streaming merge, for every combination of source
\* and target labels, all columns of the output store were written with the
\* same column-attribute keys (no block came with a Modality the store
\* lacks, or without a Modality the store has), and every column-attribute
\* array the store holds is as long as the number of columns written.
C14_ColumnAttrSchema ==
  (args.low_mem /\ out.exists) =>
    /\ \A m, n \in DOMAIN out.cols :
          ColAttrKeys(out.cols[m]) = ColAttrKeys(out.cols[n])
    /\ \A key \in {"CellID", "OriginalFile", "Modality"} :
          Len(StoreColAttr(out, key)) \in {0, Len(out.cols)}

====
